---- MODULE Spec2Model ----
(***************************************************************************)
(* Model of instrument-classification/generate_audio_samples.py: the       *)
(* parameter sampler (random_params), the audio index builder              *)
(* (make_audio_index), the slicer (split_audio_to_parts), the batch        *)
(* generator (generate_random_samples / generate_notes_in_batch) and the   *)
(* dataset reader (SingleToneDataset).                                     *)
(*                                                                         *)
(* Floats are modelled as exact rationals <<num, den>> with den in         *)
(* {1, 2, 4}: such values and their products with the integers used here   *)
(* are exact in IEEE double arithmetic, so int(a * b) of the source is     *)
(* the truncation of the exact quotient.                                   *)
(*                                                                         *)
(* A waveform is the record [id, len]: sample k of waveform id, for        *)
(* 0 <= k < len.  A segment [id, lo, hi] is the samples lo .. hi-1 of      *)
(* that waveform, so two segments are equal iff they hold the same         *)
(* samples of the same waveform.                                           *)
(***************************************************************************)
EXTENDS Integers, Sequences, FiniteSets

VARIABLES
    \* --- make_audio_index / split_audio_to_parts called on their own
    layout_pc,        \* "args", then "indexed", then "sliced"
    layout_args,      \* the arguments of make_audio_index
    audio_index_ret,  \* what make_audio_index returned
    wave,             \* the waveform handed to split_audio_to_parts
    parts_ret,        \* list(split_audio_to_parts(...))
    \* --- random_params and the process-wide random source
    np_random,        \* the state of numpy's global generator
    instruments,      \* midi_instruments(): the pitch ranges of the programs
    params_pc,        \* "none", "returned" or "ValueError": the last call's outcome
    params_args,      \* the last call's arguments
    params_ret,       \* the table the last call returned
    earlier_call,     \* an earlier seeded call: <<>> or <<[args, ret]>>
    params_later,     \* the last call came after the one kept in earlier_call
    \* --- generate_random_samples / generate_notes_in_batch / SingleToneDataset
    pc,               \* where the generation run stands
    gen_args,         \* the arguments of the run
    params_df,        \* the parameter table of the run
    stream,           \* the composed music21 Stream
    audio_index,      \* the index built by the run
    x,                \* the mono waveform read back at line 157
    disk,             \* the files of the output directory
    ds                \* what SingleToneDataset(output_dir) gave

layoutVars == <<layout_pc, layout_args, audio_index_ret, wave, parts_ret>>

paramVars ==
    <<np_random, instruments, params_pc, params_args, params_ret, earlier_call, params_later>>

genVars == <<pc, gen_args, params_df, stream, audio_index, x, disk, ds>>

vars == <<layoutVars, paramVars, genVars>>

\* -------------------------------------------------------------- bounds
MaxCount == 3        \* largest number of samples n
MaxDurNum == 5       \* largest numerator of a duration
MaxWaveLen == 8      \* longest waveform sliced in the layout specification
MaxSeed == 1         \* largest seed
RngModulus == 8      \* number of states of the modelled generator

NoWave == [id |-> 0, len |-> 0]

\* ------------------------------------------------------------ rationals
Dens == {1, 2, 4}
Durations == {<<k, d>> : k \in (-1)..MaxDurNum, d \in Dens}
RatLess(a, b) == a[1] * b[2] < b[1] * a[2]
RatTimes(a, k) == <<a[1] * k, a[2]>>

\* int() replaced by rounding up (math.ceil).
int_round_up(q) == -((-q[1]) \div q[2])

\* Python's int() of a float num/den (den > 0): truncation toward zero.
int(q) ==
    IF q[1] >= 0 THEN q[1] \div q[2] ELSE -((-q[1]) \div q[2])

\* ---------------------------------------------------------- the tables
\* A parameter table of n rows of which only the length matters.
BlankRow == [midi_instrument |-> 0, midi_number |-> 60, volume |-> 0,
             duration |-> <<1, 1>>, tempo |-> 60]
BlankParams(n) == [i \in 1..n |-> BlankRow]

\* make_audio_index with the slot ordinal off by one in start_samples.
make_audio_index_shifted(note_params_df, part_duration, margin_duration, sample_rate) ==
    LET sample_count == Len(note_params_df)
        part_samples == int(RatTimes(part_duration, sample_rate))
        margin_samples == int(RatTimes(margin_duration, sample_rate))
    IN [k \in 1..sample_count |->
          [start_samples |-> k * part_samples + margin_samples,
           start_time |-> <<k * part_samples + margin_samples, sample_rate>>,
           end_samples |-> ((k - 1) + 1) * part_samples - margin_samples,
           end_time |-> <<((k - 1) + 1) * part_samples - margin_samples, sample_rate>>]]

\* make_audio_index, lines 167-186.  Row k of the frame (1-based here) is
\* index value k-1.  start_time and end_time are the quotients
\* samples / sample_rate, kept as the pair <<samples, sample_rate>>.
make_audio_index(note_params_df, part_duration, margin_duration, sample_rate) ==
    LET sample_count == Len(note_params_df)
        part_samples == int(RatTimes(part_duration, sample_rate))
        margin_samples == int(RatTimes(margin_duration, sample_rate))
    IN [k \in 1..sample_count |->
          [start_samples |-> (k - 1) * part_samples + margin_samples,
           start_time |-> <<(k - 1) * part_samples + margin_samples, sample_rate>>,
           end_samples |-> ((k - 1) + 1) * part_samples - margin_samples,
           end_time |-> <<((k - 1) + 1) * part_samples - margin_samples, sample_rate>>]]

\* x[a:b] on a one-dimensional array: a negative bound counts from the end,
\* both bounds are clamped to 0 .. len(x), and a >= b gives the empty slice.
SliceBound(len, a) ==
    IF a < 0 THEN (IF a + len < 0 THEN 0 ELSE a + len)
    ELSE (IF a > len THEN len ELSE a)
PySlice(arr, a, b) ==
    LET lo == SliceBound(arr.len, a)
        hi == SliceBound(arr.len, b)
    IN [id |-> arr.id, lo |-> lo, hi |-> IF hi < lo THEN lo ELSE hi]

\* split_audio_to_parts, lines 188-191, materialised with list().
split_audio_to_parts(arr, sample_rate, index) ==
    [k \in 1..Len(index) |->
        PySlice(arr, index[k].start_samples, index[k].end_samples)]

\* ---------------------------------------------------- the random source
\* numpy's global generator, abstracted to a full-period linear congruential
\* generator on RngModulus states.  A draw outputs u = state / RngModulus in
\* [0, 1) and advances the state.
None == <<>>
RngStates == 0..(RngModulus - 1)
Seeds == 0..MaxSeed
RngNext(state) == (5 * state + 3) % RngModulus
\* The state after a number of draws.
RECURSIVE RngIterate(_, _)
RngIterate(state, draws) ==
    IF draws = 0 THEN state ELSE RngIterate(RngNext(state), draws - 1)
RngPeriod == [state \in RngStates |-> [draws \in RngStates |-> RngIterate(state, draws)]]
RngAfter(state, draws) == RngPeriod[state][draws % RngModulus]

\* np.random.seed(seed), line 83
np_random_seed(seed) == (7 * seed + 1) % RngModulus
\* an element of a, by floor(u * len(a)): np.random.choice, line 106
np_random_choice(a, state) == a[((state * Len(a)) \div RngModulus) + 1]
\* an integer of low..high, both included: np.random.random_integers, line 103
np_random_random_integers(low, high, state) ==
    low + ((state * (high - low + 1)) \div RngModulus)
\* low + u*(high - low) as a rational: np.random.uniform, line 108
np_random_uniform(low, high, state) ==
    <<low[1] * high[2] * RngModulus + state * (high[1] * low[2] - low[1] * high[2]),
      low[2] * high[2] * RngModulus>>

\* ------------------------------------------------------- random_params
arange(a, b) == [k \in 1..(b - a) |-> a + k - 1]

\* lines 94-99
allowed_instruments == arange(0, 8) \o arange(16, 32) \o arange(40, 48) \o arange(56, 80)

Min(a, b) == IF a < b THEN a ELSE b
Max(a, b) == IF a > b THEN a ELSE b
\* np.clip(v, lo, hi) == minimum(hi, maximum(v, lo))
np_clip(v, lo, hi) == Min(hi, Max(v, lo))

\* The instrument table gives the programs below 40 the range table[1] and
\* the others table[2], each <<min_pitch, max_pitch>>: instruments.ix[i], line 88.
instruments_ix(table, i) == IF i < 40 THEN table[1] ELSE table[2]

\* instrument_range, lines 87-92
instrument_range(table, note_range, i) ==
    LET instr == instruments_ix(table, i)
    IN IF note_range # None
       THEN <<np_clip(instr[1], note_range[1], note_range[2]),
              np_clip(instr[2], note_range[1], note_range[2])>>
       ELSE instr

\* The seed left unused: the draws continue from the ambient state.
seeded_state_unseeded(seed, state) == state

\* The state random_params draws from: re-seeded when a seed is given, lines 82-83.
seeded_state(seed, state) == IF seed # None THEN np_random_seed(seed[1]) ELSE state

\* random_params, lines 75-113.  a = [n, note_range, volume_range, duration,
\* tempo, seed].  The draws, in order: n instruments (line 106), one pitch
\* per row (line 107), n volumes (line 108).  random_integers raises
\* ValueError, before drawing, on a row whose range has low > high.
random_params(a, table, state) ==
    LET s0 == seeded_state(a.seed, state)
        n == a.n
        instr == [k \in 1..n |-> np_random_choice(allowed_instruments, RngAfter(s0, k - 1))]
        range == [k \in 1..n |-> instrument_range(table, a.note_range, instr[k])]
        bad == {k \in 1..n : range[k][1] > range[k][2]}
        firstBad == CHOOSE k \in bad : \A j \in bad : k <= j
    IN IF bad # {}
       THEN [pc |-> "ValueError", df |-> <<>>,
             state |-> RngAfter(s0, n + firstBad - 1)]
       ELSE [pc |-> "returned",
             df |-> [k \in 1..n |->
                       [midi_instrument |-> instr[k],
                        midi_number |->
                            np_random_random_integers(range[k][1], range[k][2],
                                                      RngAfter(s0, n + k - 1)),
                        volume |-> np_random_uniform(a.volume_range[1], a.volume_range[2],
                                                     RngAfter(s0, 2 * n + k - 1)),
                        duration |-> a.duration,
                        tempo |-> a.tempo]],
             state |-> RngAfter(s0, 3 * n)]

\* ------------------------------------------------- the composed stream
RECURSIVE GCD(_, _)
GCD(a, b) == IF b = 0 THEN a ELSE GCD(b, a % b)
RatNorm(q) == LET g == GCD(IF q[1] < 0 THEN -q[1] ELSE q[1], q[2])
              IN <<q[1] \div g, q[2] \div g>>
RatPlus(a, b) == RatNorm(<<a[1] * b[2] + b[1] * a[2], a[2] * b[2]>>)
RatZero == <<0, 1>>

\* The elements appended at lines 132-138: kind, quarterLength and value (the
\* tempo number, the MIDI program or the MIDI pitch).
MetronomeMark(number) ==
    [kind |-> "MetronomeMark", quarterLength |-> RatZero, value |-> number,
     volume |-> RatZero, offset |-> RatZero]
make_instrument(id) ==
    [kind |-> "Instrument", quarterLength |-> RatZero, value |-> id,
     volume |-> RatZero, offset |-> RatZero]
chord_with_volume(midi, duration, volume) ==
    [kind |-> "Chord", quarterLength |-> RatNorm(duration), value |-> midi,
     volume |-> volume, offset |-> RatZero]
Rest(duration) ==
    [kind |-> "Rest", quarterLength |-> RatNorm(duration), value |-> 0,
     volume |-> RatZero, offset |-> RatZero]

\* Stream.highestTime: the end of the last element (appends keep it the latest).
highestTime(s) ==
    IF Len(s) = 0 THEN RatZero
    ELSE RatPlus(s[Len(s)].offset, s[Len(s)].quarterLength)
\* Stream.append: the element is placed at the end of the stream.
stream_append(s, e) == Append(s, [e EXCEPT !.offset = highestTime(s)])

\* The body of the loop of generate_notes_in_batch, lines 132-138.
append_row(s, row) ==
    LET s1 == stream_append(s, MetronomeMark(row.tempo))
        s2 == stream_append(s1, make_instrument(row.midi_instrument))
        duration == row.duration
        s3 == stream_append(s2, chord_with_volume(row.midi_number, duration, row.volume))
    IN stream_append(s3, Rest(RatTimes(duration, 2)))

\* The loop of lines 131-138 from row i on.
RECURSIVE compose(_, _, _)
compose(s, note_params_df, i) ==
    IF i > Len(note_params_df) THEN s
    ELSE compose(append_row(s, note_params_df[i]), note_params_df, i + 1)

\* ------------------------------------------------------------ the files
\* A file is absent, <<>>, or <<[run, data]>>: what was written and by which
\* run (0: the earlier run whose artifacts were in the directory, 1: this one).
NoFile == <<>>
File(run, data) == <<[run |-> run, data |-> data]>>
Formats == {"flac", "wav"}

ParamColumns == <<"midi_instrument", "midi_number", "volume", "duration", "tempo">>
IndexColumns == <<"start_samples", "start_time", "end_samples", "end_time">>

\* DataFrame.to_csv: a header line, then per row the row label and the cells.
to_csv(df, columns) ==
    [header |-> <<"">> \o columns,
     rows |-> [k \in 1..Len(df) |->
                 <<k - 1>> \o [j \in 1..Len(columns) |-> df[k][columns[j]]]]]

\* pd.read_csv(file, index_col=0): the first column is the row label, the
\* others are named by the header; the rows keep the order of the file.
read_csv(csv) ==
    LET columns == Tail(csv.header)
        column(name) == CHOOSE j \in 1..Len(columns) : columns[j] = name
    IN [k \in 1..Len(csv.rows) |->
          [name \in {columns[j] : j \in 1..Len(columns)} |->
              csv.rows[k][column(name) + 1]]]

EmptyDisk ==
    [parameters_csv |-> NoFile, all_samples_index_csv |-> NoFile,
     all_samples_midi |-> NoFile,
     all_samples_stereo |-> [f \in Formats |-> NoFile],
     all_samples |-> [f \in Formats |-> NoFile],
     sample |-> [f \in Formats |-> <<>>]]

\* sample_rate=44100 in generate_notes_in_batch's signature, line 115
BatchSampleRate == 44100
\* make_audio_index(note_params_df, 3.0, 0.5, sample_rate), line 147
BatchPartDuration == <<3, 1>>
BatchMarginDuration == <<1, 2>>

\* The length in samples of the timeline up to quarter-note offset q at the
\* tempo of the table: q * 60 / tempo seconds.
TimelineSamples(q, tempo, sample_rate) == int(<<q[1] * 60 * sample_rate, q[2] * tempo>>)

\* FluidSynth.midi_to_audio: the lengths a render of the MIDI file may have:
\* the whole timeline, or the timeline up to the end of the last note (the
\* trailing rest is no MIDI event).
RenderLengths(s, tempo, sample_rate) ==
    {TimelineSamples(highestTime(s), tempo, sample_rate),
     TimelineSamples(s[Len(s)].offset, tempo, sample_rate)}

\* SingleToneDataset.__init__, lines 213-221, on the files of path: the two
\* tables are read, then all_samples.flac, each read raising when its file is
\* absent; the slices are then materialised (np.array of the list).
NoDataset ==
    [status |-> "none", params_run |-> 0, params |-> <<>>, index_run |-> 0,
     audio_index |-> <<>>, audio |-> NoWave, samples |-> <<>>]
SingleToneDataset(files) ==
    IF files.parameters_csv = NoFile
    THEN [NoDataset EXCEPT !.status = "FileNotFoundError"]
    ELSE IF files.all_samples_index_csv = NoFile
    THEN [NoDataset EXCEPT !.status = "FileNotFoundError"]
    ELSE IF files.all_samples["flac"] = NoFile
    THEN [NoDataset EXCEPT !.status = "RuntimeError"]
    ELSE LET params == read_csv(files.parameters_csv[1].data)
             index == read_csv(files.all_samples_index_csv[1].data)
             audio == [id |-> files.all_samples["flac"][1].run,
                       len |-> files.all_samples["flac"][1].data.len]
         IN [status |-> "ok",
             params_run |-> files.parameters_csv[1].run,
             params |-> params,
             index_run |-> files.all_samples_index_csv[1].run,
             audio_index |-> index,
             audio |-> audio,
             samples |-> split_audio_to_parts(audio, BatchSampleRate, index)]

NoGenArgs ==
    [entry |-> "none", count |-> 0, seed |-> None, audio_format |-> "flac",
     into_empty |-> FALSE]
GenIdle ==
    /\ pc = "idle"
    /\ gen_args = NoGenArgs
    /\ params_df = <<>>
    /\ stream = <<>>
    /\ audio_index = <<>>
    /\ x = NoWave
    /\ disk = EmptyDisk
    /\ ds = NoDataset

\* ---------------------------------------- the sampling specification
LayoutIdle ==
    /\ layout_pc = "args"
    /\ layout_args = [n |-> 0, part_duration |-> <<3, 1>>, margin_duration |-> <<1, 2>>,
                      sample_rate |-> 44100]
    /\ audio_index_ret = <<>>
    /\ wave = NoWave
    /\ parts_ret = <<>>

InstrumentTables ==
    {<<(<<21, 108>>), (<<60, 72>>)>>, <<(<<60, 72>>), (<<21, 108>>)>>,
     <<(<<36, 96>>), (<<72, 60>>)>>}

NoteRanges == {None, <<40, 64>>, <<80, 90>>}
DefaultVolumeRange == <<(<<1, 2>>), (<<1, 1>>)>>
DefaultDuration == <<1, 1>>
\* tempo=60 in random_params' signature, line 75
DefaultTempo == 60
ParamsArgs ==
    [n : 0..MaxCount, note_range : NoteRanges, volume_range : {DefaultVolumeRange},
     duration : {DefaultDuration}, tempo : {DefaultTempo},
     seed : {None} \cup {<<k>> : k \in Seeds}]
NoParamsArgs ==
    [n |-> 0, note_range |-> None, volume_range |-> DefaultVolumeRange,
     duration |-> DefaultDuration, tempo |-> DefaultTempo, seed |-> None]
DefaultTable == <<(<<21, 108>>), (<<60, 72>>)>>

ParamsIdle ==
    /\ np_random = 0
    /\ instruments = DefaultTable
    /\ params_pc = "none"
    /\ params_args = NoParamsArgs
    /\ params_ret = <<>>
    /\ earlier_call = <<>>
    /\ params_later = FALSE

ParamsInit ==
    /\ np_random \in RngStates
    /\ instruments \in InstrumentTables
    /\ params_pc = "none"
    /\ params_args = NoParamsArgs
    /\ params_ret = <<>>
    /\ earlier_call = <<>>
    /\ params_later = FALSE
    /\ LayoutIdle
    /\ GenIdle

\* df = random_params(n, note_range=..., seed=...)
RandomParams ==
    \E a \in ParamsArgs :
        \E r \in {random_params(a, instruments, np_random)} :
           /\ np_random' = r.state
           /\ params_pc' = r.pc
           /\ params_args' = a
           /\ params_ret' = r.df
           /\ params_later' = (earlier_call # <<>>)
           /\ UNCHANGED <<instruments, earlier_call, layoutVars, genVars>>

\* The caller keeps the table of a seeded call to compare later ones with.
KeepTable ==
    /\ params_pc = "returned"
    /\ params_args.seed # None
    /\ earlier_call = <<>>
    /\ params_later = FALSE
    /\ earlier_call' = <<[args |-> params_args, ret |-> params_ret]>>
    /\ UNCHANGED <<np_random, instruments, params_pc, params_args, params_ret,
                   params_later, layoutVars, genVars>>

\* Other code draws from the process-wide source.
OtherDraw ==
    /\ np_random' = RngNext(np_random)
    /\ UNCHANGED <<instruments, params_pc, params_args, params_ret, earlier_call,
                   params_later, layoutVars, genVars>>

ParamsNext == RandomParams \/ OtherDraw

SpecParams == ParamsInit /\ [][ParamsNext]_vars

\* ------------------------------------ the seeded-sampling specification
SeededInit ==
    /\ ParamsInit
    /\ instruments = DefaultTable

SeededNext == RandomParams \/ KeepTable \/ OtherDraw

SpecSeeded == SeededInit /\ [][SeededNext]_vars

\* ------------------------------------------- the layout specification
SampleRates == {-1, 0, 1, 2, 3, 44100}
LayoutArgs ==
    [n : 0..MaxCount, part_duration : Durations, margin_duration : Durations,
     sample_rate : SampleRates]

LayoutInit ==
    /\ ParamsIdle
    /\ GenIdle
    /\ layout_pc = "args"
    /\ layout_args \in LayoutArgs
    /\ audio_index_ret = <<>>
    /\ wave = NoWave
    /\ parts_ret = <<>>

\* audio_index = make_audio_index(df, part_duration, margin_duration, sample_rate)
MakeAudioIndex ==
    /\ layout_pc = "args"
    /\ layout_pc' = "indexed"
    /\ audio_index_ret' =
          make_audio_index(BlankParams(layout_args.n), layout_args.part_duration,
                           layout_args.margin_duration, layout_args.sample_rate)
    /\ UNCHANGED <<layout_args, wave, parts_ret, paramVars, genVars>>

\* parts = list(split_audio_to_parts(x, sample_rate, audio_index))
SplitAudioToParts ==
    /\ layout_pc = "indexed"
    /\ layout_pc' = "sliced"
    /\ \E len \in 0..MaxWaveLen :
          /\ wave' = [id |-> 1, len |-> len]
          /\ parts_ret' = split_audio_to_parts(wave', layout_args.sample_rate,
                                               audio_index_ret)
    /\ UNCHANGED <<layout_args, audio_index_ret, paramVars, genVars>>

LayoutNext == MakeAudioIndex \/ SplitAudioToParts

SpecLayout == LayoutInit /\ [][LayoutNext]_vars

\* ------------------------------------------ the generation specification
\* The artifacts a completed earlier run (run 0) of count rows left.
EarlierRun(count, format) ==
    LET df == random_params([NoParamsArgs EXCEPT !.n = count, !.seed = <<1>>],
                            DefaultTable, 0).df
        index == make_audio_index(df, BatchPartDuration, BatchMarginDuration,
                                  BatchSampleRate)
        s == compose(<<>>, df, 1)
        len == TimelineSamples(highestTime(s), DefaultTempo, BatchSampleRate)
        audio == [id |-> 0, len |-> len]
    IN [EmptyDisk EXCEPT
          !.parameters_csv = File(0, to_csv(df, ParamColumns)),
          !.all_samples_index_csv = File(0, to_csv(index, IndexColumns)),
          !.all_samples_midi = File(0, s),
          !.all_samples[format] = File(0, [len |-> len, channels |-> 1]),
          !.sample[format] = [k \in 1..count |->
                [run |-> 0, data |-> split_audio_to_parts(audio, BatchSampleRate, index)[k]]]]

PriorDisks == {EmptyDisk} \cup {EarlierRun(c, f) : c \in 1..MaxCount, f \in Formats}

Init ==
    /\ LayoutIdle
    /\ np_random \in RngStates
    /\ instruments = DefaultTable
    /\ params_pc = "none"
    /\ params_args = NoParamsArgs
    /\ params_ret = <<>>
    /\ earlier_call = <<>>
    /\ params_later = FALSE
    /\ pc = "idle"
    /\ gen_args = NoGenArgs
    /\ params_df = <<>>
    /\ stream = <<>>
    /\ audio_index = <<>>
    /\ x = NoWave
    /\ disk \in PriorDisks
    /\ ds = NoDataset

SeedArgs == {None} \cup {<<k>> : k \in Seeds}
BatchDurations == {<<1, 1>>, <<1, 2>>}
BatchTempos == {60, 120}

\* generate_random_samples(args), line 203: params_df = random_params(count, seed)
GenerateRandomSamples ==
    /\ pc = "idle"
    /\ \E count \in 1..MaxCount, seed \in SeedArgs, format \in Formats :
         \E r \in {random_params([NoParamsArgs EXCEPT !.n = count, !.seed = seed],
                                 instruments, np_random)} :
            /\ gen_args' = [entry |-> "generate_random_samples", count |-> count,
                            seed |-> seed, audio_format |-> format,
                            into_empty |-> (disk = EmptyDisk)]
            /\ np_random' = r.state
            /\ params_df' = r.df
            /\ pc' = IF r.pc = "returned" THEN "sampled" ELSE "aborted"
    /\ ds' = NoDataset
    /\ UNCHANGED <<stream, audio_index, x, disk, instruments, params_pc, params_args,
                   params_ret, earlier_call, params_later, layoutVars>>

\* lines 204-205: params_df.to_csv(output_dir + '/parameters.csv')
WriteParameters ==
    /\ pc = "sampled"
    /\ disk' = [disk EXCEPT !.parameters_csv = File(1, to_csv(params_df, ParamColumns))]
    /\ pc' = "batch"
    /\ UNCHANGED <<gen_args, params_df, stream, audio_index, x, ds, paramVars, layoutVars>>

\* generate_notes_in_batch(random_params(n, duration=d, tempo=t, seed=s), dir, format)
\* called on its own.
GenerateNotesInBatch ==
    /\ pc = "idle"
    /\ \E count \in 1..MaxCount, seed \in SeedArgs, format \in Formats,
          duration \in BatchDurations, tempo \in BatchTempos :
         \E r \in {random_params([NoParamsArgs EXCEPT !.n = count, !.seed = seed,
                                     !.duration = duration, !.tempo = tempo],
                                 instruments, np_random)} :
            /\ r.pc = "returned"
            /\ gen_args' = [entry |-> "generate_notes_in_batch", count |-> count,
                            seed |-> seed, audio_format |-> format,
                            into_empty |-> (disk = EmptyDisk)]
            /\ np_random' = r.state
            /\ params_df' = r.df
            /\ pc' = "batch"
    /\ ds' = NoDataset
    /\ UNCHANGED <<stream, audio_index, x, disk, instruments, params_pc, params_args,
                   params_ret, earlier_call, params_later, layoutVars>>

\* lines 129-138: the stream is composed
Compose ==
    /\ pc = "batch"
    /\ stream' = compose(<<>>, params_df, 1)
    /\ pc' = "composed"
    /\ UNCHANGED <<gen_args, params_df, audio_index, x, disk, ds, paramVars, layoutVars>>

\* lines 147-148: the index is built and written
WriteIndex ==
    /\ pc = "composed"
    /\ audio_index' = make_audio_index(params_df, BatchPartDuration, BatchMarginDuration,
                                       BatchSampleRate)
    /\ disk' = [disk EXCEPT !.all_samples_index_csv = File(1, to_csv(audio_index', IndexColumns))]
    /\ pc' = "indexed"
    /\ UNCHANGED <<gen_args, params_df, stream, x, ds, paramVars, layoutVars>>

\* line 150: write_midi(stream, midi_file)
WriteMidi ==
    /\ pc = "indexed"
    /\ disk' = [disk EXCEPT !.all_samples_midi = File(1, stream)]
    /\ pc' = "midi"
    /\ UNCHANGED <<gen_args, params_df, stream, audio_index, x, ds, paramVars, layoutVars>>

\* line 152: fs.midi_to_audio(midi_file, audio_file_stereo)
MidiToAudio ==
    /\ pc = "midi"
    /\ \E len \in RenderLengths(disk.all_samples_midi[1].data, params_df[1].tempo,
                                BatchSampleRate) :
          disk' = [disk EXCEPT !.all_samples_stereo[gen_args.audio_format] =
                                   File(1, [len |-> len, channels |-> 2])]
    /\ pc' = "rendered"
    /\ UNCHANGED <<gen_args, params_df, stream, audio_index, x, ds, paramVars, layoutVars>>

\* line 154: convert_to_mono(audio_file_stereo, audio_file), lines 162-165
ConvertToMono ==
    /\ pc = "rendered"
    /\ disk' = [disk EXCEPT !.all_samples[gen_args.audio_format] =
                   File(1, [len |-> disk.all_samples_stereo[gen_args.audio_format][1].data.len,
                            channels |-> 1])]
    /\ pc' = "mono"
    /\ UNCHANGED <<gen_args, params_df, stream, audio_index, x, ds, paramVars, layoutVars>>

\* line 155: os.remove(audio_file_stereo)
RemoveStereo ==
    /\ pc = "mono"
    /\ disk' = [disk EXCEPT !.all_samples_stereo[gen_args.audio_format] = NoFile]
    /\ pc' = "removed"
    /\ UNCHANGED <<gen_args, params_df, stream, audio_index, x, ds, paramVars, layoutVars>>

\* line 157: x, sample_rate = sf.read(audio_file)
ReadAudio ==
    /\ pc = "removed"
    /\ x' = [id |-> disk.all_samples[gen_args.audio_format][1].run,
             len |-> disk.all_samples[gen_args.audio_format][1].data.len]
    /\ pc' = "storing"
    /\ UNCHANGED <<gen_args, params_df, stream, audio_index, disk, ds, paramVars, layoutVars>>

\* The files sample_000000 .. of this run written so far.
PartsStored == Cardinality({k \in 1..Len(disk.sample[gen_args.audio_format]) :
                               disk.sample[gen_args.audio_format][k].run = 1})

\* lines 159-160, one turn of the loop of store_parts_to_files (lines 197-200):
\* the next part is cut and written to sample_<i>.<format>.
StorePart ==
    /\ pc = "storing"
    /\ PartsStored < Len(audio_index)
    /\ LET i == PartsStored + 1
           part == split_audio_to_parts(x, BatchSampleRate, audio_index)[i]
           old == disk.sample[gen_args.audio_format]
           file == [run |-> 1, data |-> part]
       IN disk' = [disk EXCEPT !.sample[gen_args.audio_format] =
                     IF i <= Len(old) THEN [old EXCEPT ![i] = file] ELSE Append(old, file)]
    /\ pc' = "storing"
    /\ UNCHANGED <<gen_args, params_df, stream, audio_index, x, ds, paramVars, layoutVars>>

\* The loop is over and generate_notes_in_batch returns.
Return ==
    /\ pc = "storing"
    /\ PartsStored = Len(audio_index)
    /\ pc' = "done"
    /\ UNCHANGED <<gen_args, params_df, stream, audio_index, x, disk, ds, paramVars, layoutVars>>

Running == {"sampled", "batch", "composed", "indexed", "midi", "rendered", "mono",
            "removed", "storing"}

\* The run is killed, or a step raises (a synthesis or I/O failure).
Abort ==
    /\ pc \in Running
    /\ pc' = "aborted"
    /\ UNCHANGED <<gen_args, params_df, stream, audio_index, x, disk, ds, paramVars, layoutVars>>

\* SingleToneDataset(output_dir) while no run is writing
OpenDataset ==
    /\ pc \in {"idle", "done", "aborted"}
    /\ ds.status = "none"
    /\ ds' = SingleToneDataset(disk)
    /\ UNCHANGED <<pc, gen_args, params_df, stream, audio_index, x, disk, paramVars, layoutVars>>

Next ==
    \/ GenerateRandomSamples
    \/ WriteParameters
    \/ GenerateNotesInBatch
    \/ Compose
    \/ WriteIndex
    \/ WriteMidi
    \/ MidiToAudio
    \/ ConvertToMono
    \/ RemoveStereo
    \/ ReadAudio
    \/ StorePart
    \/ Return
    \/ Abort
    \/ OpenDataset

Spec == Init /\ [][Next]_vars

\* ------------------------------------------------ claims on the layout
IndexReturned == layout_pc \in {"indexed", "sliced"}
PartProduct == RatTimes(layout_args.part_duration, layout_args.sample_rate)
MarginProduct == RatTimes(layout_args.margin_duration, layout_args.sample_rate)

\* t is q truncated toward zero / rounded toward minus infinity, said without \div.
IsTrunc(t, q) ==
    IF q[1] >= 0 THEN t >= 0 /\ t * q[2] <= q[1] /\ q[1] < (t + 1) * q[2]
    ELSE t <= 0 /\ (t - 1) * q[2] < q[1] /\ q[1] <= t * q[2]
IsFloor(t, q) == t * q[2] <= q[1] /\ q[1] < (t + 1) * q[2]

RowsFollow(ps, ms) ==
    \A k \in 1..Len(audio_index_ret) :
        /\ audio_index_ret[k].start_samples = (k - 1) * ps + ms
        /\ audio_index_ret[k].end_samples = k * ps - ms

ScenarioArgs ==
    [n |-> 3, part_duration |-> <<3, 1>>, margin_duration |-> <<1, 2>>,
     sample_rate |-> 44100]
ScenarioRows ==
    /\ [k \in 1..Len(audio_index_ret) |-> audio_index_ret[k].start_samples]
          = <<22050, 154350, 286650>>
    /\ [k \in 1..Len(audio_index_ret) |-> audio_index_ret[k].end_samples]
          = <<110250, 242550, 374850>>

\* The margin and part sizes read back from the first row of the index.
Row1Margin == audio_index_ret[1].start_samples
Row1Part == audio_index_ret[1].start_samples + audio_index_ret[1].end_samples

LayoutPrecondition ==
    /\ RatLess(RatTimes(layout_args.margin_duration, 2), layout_args.part_duration)
    /\ layout_args.margin_duration[1] > 0
    /\ layout_args.sample_rate > 0

SlotLengthExact ==
    \A k \in 1..Len(audio_index_ret) :
        audio_index_ret[k].end_samples - audio_index_ret[k].start_samples
            = int(PartProduct) - 2 * int(MarginProduct)
NonOverlapping ==
    \A k \in 1..(Len(audio_index_ret) - 1) :
        audio_index_ret[k].end_samples <= audio_index_ret[k + 1].start_samples

\* C2 (as amended): under the precondition the index is non-decreasing in
\* start_samples and in end_samples (strictly increasing when part_samples
\* >= 1), every slot has start_samples <= end_samples (strictly when
\* part_samples > 2*margin_samples) with length exactly part_samples -
\* 2*margin_samples, and consecutive slots do not overlap.
C2_SlotsOrderedMaybeEmpty ==
    (IndexReturned /\ LayoutPrecondition) =>
        /\ SlotLengthExact
        /\ NonOverlapping
        /\ \A k \in 1..Len(audio_index_ret) :
              /\ audio_index_ret[k].start_samples <= audio_index_ret[k].end_samples
              /\ int(PartProduct) > 2 * int(MarginProduct) =>
                    audio_index_ret[k].start_samples < audio_index_ret[k].end_samples
        /\ \A k \in 1..(Len(audio_index_ret) - 1) :
              /\ audio_index_ret[k].start_samples <= audio_index_ret[k + 1].start_samples
              /\ audio_index_ret[k].end_samples <= audio_index_ret[k + 1].end_samples
              /\ int(PartProduct) >= 1 =>
                    /\ audio_index_ret[k].start_samples < audio_index_ret[k + 1].start_samples
                    /\ audio_index_ret[k].end_samples < audio_index_ret[k + 1].end_samples

\* The precondition holds and the truncation leaves slots of length zero.
C2_Witness ==
    /\ layout_pc = "indexed"
    /\ LayoutPrecondition
    /\ Len(audio_index_ret) >= 2
    /\ int(PartProduct) >= 1
    /\ audio_index_ret[1].start_samples = audio_index_ret[1].end_samples

\* C2 as stated: under the precondition the index is strictly increasing in
\* start_samples and in end_samples, every slot has start_samples <
\* end_samples with length part_samples - 2*margin_samples, and consecutive
\* slots do not overlap.
C2_SlotsStrictlyOrdered ==
    (IndexReturned /\ LayoutPrecondition) =>
        /\ SlotLengthExact
        /\ NonOverlapping
        /\ \A k \in 1..Len(audio_index_ret) :
              audio_index_ret[k].start_samples < audio_index_ret[k].end_samples
        /\ \A k \in 1..(Len(audio_index_ret) - 1) :
              /\ audio_index_ret[k].start_samples < audio_index_ret[k + 1].start_samples
              /\ audio_index_ret[k].end_samples < audio_index_ret[k + 1].end_samples

\* C7: make_audio_index called outside the precondition fails with
\* InvalidLayoutError and returns no index; it never returns a row with
\* end_samples <= start_samples.
C7_InvalidLayoutRejected ==
    (layout_pc # "args" /\ ~LayoutPrecondition) =>
        /\ layout_pc = "InvalidLayoutError"
        /\ \A k \in 1..Len(audio_index_ret) :
              audio_index_ret[k].start_samples < audio_index_ret[k].end_samples

SomeRowExceeds ==
    \E k \in 1..Len(audio_index_ret) : audio_index_ret[k].end_samples > wave.len

\* C6: if some row's end_samples exceeds the waveform length, slicing fails
\* with OutOfRangeError instead of yielding a shorter segment; otherwise it
\* yields one segment per index row, in index order, each
\* waveform[start_samples:end_samples].
C6_SliceOutOfRangeFails ==
    (layout_pc \notin {"args", "indexed"}) =>
        IF SomeRowExceeds
        THEN layout_pc = "OutOfRangeError"
        ELSE /\ layout_pc = "sliced"
             /\ Len(parts_ret) = Len(audio_index_ret)
             /\ \A k \in 1..Len(parts_ret) :
                   parts_ret[k] = PySlice(wave, audio_index_ret[k].start_samples,
                                          audio_index_ret[k].end_samples)
\* ---------------------------------------------- claims on the sampling
AllowedInstrumentSet == (0..7) \cup (16..31) \cup (40..47) \cup (56..79)

\* C4: each row returned by random_params has midi_instrument in the allowed
\* set and a midi_number within that instrument's own [min_pitch, max_pitch]
\* and, when note_range is given, also within note_range.
C4_PitchWithinInstrumentRange ==
    params_pc = "returned" =>
        \A k \in 1..Len(params_ret) :
            LET row == params_ret[k]
                own == instruments_ix(instruments, row.midi_instrument)
            IN /\ row.midi_instrument \in AllowedInstrumentSet
               /\ own[1] <= row.midi_number
               /\ row.midi_number <= own[2]
               /\ params_args.note_range # None =>
                     /\ params_args.note_range[1] <= row.midi_number
                     /\ row.midi_number <= params_args.note_range[2]

SameCallAgain ==
    /\ params_pc = "returned"
    /\ params_later
    /\ earlier_call # <<>>
    /\ params_args = earlier_call[1].args

\* C8: a call random_params(n, seed=seed) made after an earlier call with the
\* same arguments and a seed returns the table the earlier call returned,
\* whatever was drawn from the process-wide source before or between them.
C8_SeededCallsAgree == SameCallAgain => params_ret = earlier_call[1].ret

C8_Witness ==
    /\ SameCallAgain
    /\ params_args.n >= 2
    /\ params_ret[1] # params_ret[2]
\* -------------------------------------------- claims on the generation
\* The stream and the index of the run are both built.
Built == pc \in {"indexed", "midi", "rendered", "mono", "removed", "storing", "done"}
\* The note of row i, the third of the four elements appended for the row.
NoteOf(i) == stream[4 * (i - 1) + 3]
RestOf(i) == stream[4 * (i - 1) + 4]
BatchPartSamples == audio_index[1].start_samples + audio_index[1].end_samples
\* quarter-note offset q at tempo t falls exactly on sample k (at 44100 Hz)
OnSample(q, t, k) == q[1] * 60 * BatchSampleRate = k * q[2] * t
\* ... at or after sample k / at or before sample k
NotBeforeSample(q, t, k) == q[1] * 60 * BatchSampleRate >= k * q[2] * t
NotAfterSample(q, t, k) == q[1] * 60 * BatchSampleRate <= k * q[2] * t

\* C3: for every table passed to generate_notes_in_batch (all rows sharing
\* one duration d and one tempo t) note i is placed at i*3*d quarter-notes,
\* followed by a rest of 2*d, and its start converted to samples at tempo t
\* is i*part_samples of the index built in the same call, for every row i.
C3_TimelineMatchesIndex ==
    Built =>
        \A i \in 1..Len(params_df) :
            /\ NoteOf(i).kind = "Chord"
            /\ NoteOf(i).offset = RatNorm(RatTimes(params_df[i].duration, 3 * (i - 1)))
            /\ RestOf(i).kind = "Rest"
            /\ RestOf(i).quarterLength = RatNorm(RatTimes(params_df[i].duration, 2))
            /\ OnSample(NoteOf(i).offset, params_df[i].tempo, (i - 1) * BatchPartSamples)

WroteSomething ==
    \/ disk.parameters_csv # NoFile /\ disk.parameters_csv[1].run = 1
    \/ disk.all_samples_index_csv # NoFile /\ disk.all_samples_index_csv[1].run = 1

\* C5: after a generation run that aborted at any step after it started
\* writing, whatever the directory held before, the Dataset Reader never
\* returns a Dataset whose parameter table, audio index and waveform come
\* from different runs or have different row counts.
C5_AbortedRunNeverMixed ==
    (pc = "aborted" /\ WroteSomething /\ ds.status = "ok") =>
        /\ ds.params_run = ds.index_run
        /\ ds.index_run = ds.audio.id
        /\ Len(ds.params) = Len(ds.audio_index)

\* C9: for flac and for wav and every count N, after a successful generate
\* run into an empty directory the Dataset Reader succeeds and returns the
\* parameter table, audio index and mono waveform written by that run, with
\* exactly N slices.
C9_ReaderReadsWhatWasWritten ==
    (/\ pc = "done"
     /\ gen_args.entry = "generate_random_samples"
     /\ gen_args.into_empty
     /\ ds.status # "none") =>
        /\ ds.status = "ok"
        /\ ds.params = params_df
        /\ ds.audio_index = audio_index
        /\ ds.audio = x
        /\ Len(ds.samples) = gen_args.count
====
